---------------------------- MODULE Spec2Model ----------------------------
(***************************************************************************)
(* A model of png2gba (src/png2gba.c): the pixel traversal of next_byte,   *)
(* the 24-bit to 15-bit colour reduction, the palette of insert_palette,   *)
(* and the conversion loop of png2gba as set up by main.                   *)
(***************************************************************************)
EXTENDS Integers, Sequences, FiniteSets, TLC

VARIABLES
    width, height,      \* struct Image: width, height
    tileize,            \* the tileize argument of next_byte / png2gba
    r, c, tr, tc,       \* the four static locals of next_byte
    ptr,                \* what the last call of next_byte returned
    yielded,            \* positions returned by next_byte in the current run
    first_run,          \* TRUE while the statics are those of program start
    again,              \* calls of next_byte made after it returned NULL
    img_base, img_period,   \* the decoded pixel data (image->rows), see PixelAt
    args_palette,       \* args.palette
    colorkey,           \* args.colorkey, a sequence of characters
    palette,            \* struct Palette palette of main
    key15,              \* what hex24_to_15(args.colorkey) returned
    red, green, blue,   \* the locals red, green, blue of png2gba
    color,              \* the local color of png2gba
    pc,                 \* where the program is
    data,               \* the values written to the data array, in order
    colors_this_line,   \* the local colors_this_line of the pixel loop
    data_breaks,        \* for every "\n" of the pixel loop, the values before it
    table,              \* the values written to the palette array, in order
    table_breaks,       \* for every "\n" of the palette loop, the values before it
    last_color,         \* the color argument of the last insert_palette call
    last_index,         \* what the last insert_palette call returned
    given               \* color -> the index its first insertion returned

trav_vars ==
    <<width, height, tileize, r, c, tr, tc, ptr, yielded, first_run, again>>
image_vars == <<img_base, img_period>>
args_vars == <<args_palette, colorkey>>
pixel_vars == <<red, green, blue, color>>
emit_vars == <<data, colors_this_line, data_breaks, table, table_breaks>>
insert_vars == <<last_color, last_index, given>>

vars == <<trav_vars, image_vars, args_vars, palette, key15, pixel_vars, pc,
          emit_vars, insert_vars>>

-----------------------------------------------------------------------------
(* Bounds of the model *)

\* widths and heights 1..MaxSmall are modelled besides the multiples of 8
MaxSmall == 3
\* the largest image side is MaxTiles tiles
MaxTiles == 2

\* insert_palette is driven with the colors 0..MaxColor
MaxColor == 17
\* at most MaxHigh colors enter the palette from the top of 0..MaxColor
MaxHigh == 2
\* the pixel patterns repeat after 1, 2 or MaxPeriod pixels
MaxPeriod == 17
\* the pixel patterns start at shade 0..MaxBase
MaxBase == 2
\* channel values of the quantizer: top five bits within MaxTop of 0 or 31
MaxTop == 1
\* next_byte is called at most MaxAgain times after it returned NULL
MaxAgain == 2

(* Program constants *)

\* #define PALETTE_MAX 256
PALETTE_MAX == 256
\* #define TILE_SIZE 8
TILE_SIZE == 8

\* the literal 8 of next_byte's tile arithmetic
TileDim == 8

NULL == "NULL"
NotCalled == "not called"
Undefined == "undefined"

Dims == (1..MaxSmall) \cup {TileDim * k : k \in 1..MaxTiles}

-----------------------------------------------------------------------------
(* Values of the parts a specification leaves alone *)

\* no value: no color, no index
None == 0 - 1
\* the palette before  struct Palette palette  is set up
NoPaletteYet == <<>>

NoImageData == img_base = 0 /\ img_period = 1
NoArgs == args_palette = 0 /\ colorkey = <<>>
NoPalette == palette = NoPaletteYet /\ key15 = None
NoPixel == red = 0 /\ green = 0 /\ blue = 0 /\ color = None
NoOutput ==
    /\ data = <<>> /\ colors_this_line = 0 /\ data_breaks = <<>>
    /\ table = <<>> /\ table_breaks = <<>>
NoInserts == last_color = None /\ last_index = None /\ given = <<>>

-----------------------------------------------------------------------------
(* The 24-bit to 15-bit colour reduction *)

\* unsigned short, unsigned char
U16(x) == x % 65536
U8(x) == x % 256

\* x >> n and x << n on non-negative ints
Shr(x, n) == x \div (2 ^ n)
Shl(x, n) == x * (2 ^ n)

PixelColor_NoShift(rd, gr, bl) ==
    U16(U16(U16(Shl(bl, 10)) + Shl(gr, 5)) + rd)

\* unsigned short color = (blue >> 3) << 10;
\* color += (green >> 3) << 5; color += (red >> 3);
PixelColor(rd, gr, bl) ==
    U16(U16(U16(Shl(Shr(bl, 3), 10)) + Shl(Shr(gr, 3), 5)) + Shr(rd, 3))

HexDigits ==
    <<"0", "1", "2", "3", "4", "5", "6", "7", "8", "9",
      "a", "b", "c", "d", "e", "f">>
HexDigitsUpper ==
    <<"0", "1", "2", "3", "4", "5", "6", "7", "8", "9",
      "A", "B", "C", "D", "E", "F">>

IsHexDigit(ch) ==
    \E d \in 1..16 : HexDigits[d] = ch \/ HexDigitsUpper[d] = ch

DigitValue(ch) ==
    (CHOOSE d \in 1..16 : HexDigits[d] = ch \/ HexDigitsUpper[d] = ch) - 1

\* strtol(s, NULL, 16) on a string of two characters: the digits up to the
\* first character that is no hexadecimal digit
strtol16(s) ==
    IF ~IsHexDigit(s[1]) THEN 0
    ELSE IF ~IsHexDigit(s[2]) THEN DigitValue(s[1])
    ELSE 16 * DigitValue(s[1]) + DigitValue(s[2])

hex24_to_15_Swapped(hex24) ==
    LET rd == strtol16(SubSeq(hex24, 2, 3))
        gr == strtol16(SubSeq(hex24, 4, 5))
        bl == strtol16(SubSeq(hex24, 6, 7))
    IN  U16(U16(U16(Shl(Shr(rd, 3), 10)) + Shl(Shr(gr, 3), 5)) + Shr(bl, 3))

\* skips the '#', reads rs, gs, bs, and packs them as the pixel loop does
hex24_to_15(hex24) ==
    LET rd == strtol16(SubSeq(hex24, 2, 3))
        gr == strtol16(SubSeq(hex24, 4, 5))
        bl == strtol16(SubSeq(hex24, 6, 7))
    IN  U16(U16(U16(Shl(Shr(bl, 3), 10)) + Shl(Shr(gr, 3), 5)) + Shr(rd, 3))

-----------------------------------------------------------------------------
(* insert_palette *)

Min(S) == CHOOSE x \in S : \A y \in S : x <= y
Max(S) == CHOOSE x \in S : \A y \in S : x >= y

\* memset(&palette, 0, sizeof(palette)); palette.max = args.palette;
\* max is an unsigned char
NewPalette(option) ==
    [colors |-> [i \in 0..(PALETTE_MAX - 1) |-> 0], used |-> 0, max |-> U8(option)]

\* the for loop of insert_palette: the indices below used that hold color
Matches(clr, pal) == {i \in 0..(pal.used - 1) : pal.colors[i] = clr}

\* palette->used++; palette->colors[palette->used - 1] = color;
AddColor(clr, pal) ==
    LET u == U8(pal.used + 1)
    IN  [pal EXCEPT !.used = u, !.colors[u - 1] = clr]

insert_palette_FullFirst(clr, pal) ==
    IF pal.used >= pal.max - 1
    THEN [exit |-> TRUE, index |-> None, palette |-> pal]
    ELSE IF Matches(clr, pal) # {}
    THEN [exit |-> FALSE, index |-> Min(Matches(clr, pal)), palette |-> pal]
    ELSE [exit |-> FALSE, index |-> U8(AddColor(clr, pal).used - 1),
          palette |-> AddColor(clr, pal)]

insert_palette_OneMore(clr, pal) ==
    IF Matches(clr, pal) # {}
    THEN [exit |-> FALSE, index |-> Min(Matches(clr, pal)), palette |-> pal]
    ELSE IF pal.used > pal.max - 1
    THEN [exit |-> TRUE, index |-> None, palette |-> pal]
    ELSE [exit |-> FALSE, index |-> U8(AddColor(clr, pal).used - 1),
          palette |-> AddColor(clr, pal)]

\* One call of insert_palette: whether it ended the program with exit(-1),
\* the index it returned, and the palette after it.  used and max are
\* promoted to int in  palette->used >= (palette->max - 1).
insert_palette(clr, pal) ==
    IF Matches(clr, pal) # {}
    THEN [exit |-> FALSE, index |-> Min(Matches(clr, pal)), palette |-> pal]
    ELSE IF pal.used >= pal.max - 1
    THEN [exit |-> TRUE, index |-> None, palette |-> pal]
    ELSE [exit |-> FALSE, index |-> U8(AddColor(clr, pal).used - 1),
          palette |-> AddColor(clr, pal)]

\* the bookkeeping of one insert_palette call
Inserted(clr, res) ==
    /\ last_color' = clr
    /\ last_index' = res.index
    /\ given' = IF res.exit \/ clr \in DOMAIN given THEN given
                ELSE (clr :> res.index) @@ given

CreatePalette_NoColorkey(option, key) ==
    [exit |-> FALSE, index |-> None, palette |-> NewPalette(option)]

\* main: Create Palette and insert Transparent Color
CreatePalette(option, key) ==
    insert_palette(hex24_to_15(key), NewPalette(option))

-----------------------------------------------------------------------------
(* next_byte *)

\* the statics at program start
FreshCursor == [r |-> 0, c |-> 0, tr |-> 0, tc |-> 0]

LinearAdvance_NoWrap(cur, w) ==
    IF cur.c + 1 > w
    THEN [cur EXCEPT !.r = cur.r + 1, !.c = 0]
    ELSE [cur EXCEPT !.c = cur.c + 1]

\* !tileize: c++; if (c >= image->width) { r++; c = 0; }
LinearAdvance(cur, w) ==
    IF cur.c + 1 >= w
    THEN [cur EXCEPT !.r = cur.r + 1, !.c = 0]
    ELSE [cur EXCEPT !.c = cur.c + 1]

\* the end of a tile row: r++; tr++; c -= 8; tc = 0; and then
\* if (tr >= 8) { r -= 8; tr = 0; c += 8; }
TileRowEnd(cur) ==
    LET a == [r |-> cur.r + 1, c |-> cur.c - TileDim, tr |-> cur.tr + 1, tc |-> 0]
    IN  IF a.tr >= TileDim
        THEN [a EXCEPT !.r = a.r - TileDim, !.tr = 0, !.c = a.c + TileDim]
        ELSE a

\* if (c >= image->width) { tc = 0; tr = 0; c = 0; r += 8; }
ImageRowEnd(cur, w) ==
    IF cur.c >= w
    THEN [r |-> cur.r + TileDim, c |-> 0, tr |-> 0, tc |-> 0]
    ELSE cur

TiledAdvance_NoTileStep(cur, w) ==
    LET a == [cur EXCEPT !.c = cur.c + 1, !.tc = cur.tc + 1]
    IN  IF a.tc >= TileDim
        THEN LET b == [r |-> a.r + 1, c |-> a.c - TileDim, tr |-> a.tr + 1, tc |-> 0]
             IN  ImageRowEnd(IF b.tr >= TileDim
                             THEN [b EXCEPT !.r = b.r - TileDim, !.tr = 0]
                             ELSE b, w)
        ELSE a

TiledAdvance_LateRowEnd(cur, w) ==
    LET a == [cur EXCEPT !.c = cur.c + 1, !.tc = cur.tc + 1]
    IN  IF a.tc > TileDim THEN ImageRowEnd(TileRowEnd(a), w) ELSE a

\* tileize: c++; tc++; if (tc >= 8) { ... }
TiledAdvance(cur, w) ==
    LET a == [cur EXCEPT !.c = cur.c + 1, !.tc = cur.tc + 1]
    IN  IF a.tc >= TileDim THEN ImageRowEnd(TileRowEnd(a), w) ELSE a

\* next_byte that starts over once it has returned NULL
next_byte_Rewinds(cur, h, w, tz) ==
    IF cur.r = h
    THEN [ptr |-> NULL, cur |-> FreshCursor]
    ELSE [ptr |-> <<cur.r, cur.c>>,
          cur |-> IF ~tz THEN LinearAdvance(cur, w) ELSE TiledAdvance(cur, w)]

\* One call of next_byte on an image of height h and width w, from the
\* statics cur: the position whose address is returned (or NULL) and the
\* statics after the call.
next_byte(cur, h, w, tz) ==
    IF cur.r = h
    THEN [ptr |-> NULL, cur |-> cur]
    ELSE [ptr |-> <<cur.r, cur.c>>,
          cur |-> IF ~tz THEN LinearAdvance(cur, w) ELSE TiledAdvance(cur, w)]

Statics == [r |-> r, c |-> c, tr |-> tr, tc |-> tc]

\* while ((ptr = next_byte(image, tileize))) of png2gba, on its own
TravNext ==
    /\ ptr # NULL
    /\ ptr # Undefined
    /\ r <= height
    /\ LET res == next_byte(Statics, height, width, tileize)
       IN  /\ ptr' = res.ptr
           /\ r' = res.cur.r
           /\ c' = res.cur.c
           /\ tr' = res.cur.tr
           /\ tc' = res.cur.tc
           /\ yielded' = IF res.ptr = NULL THEN yielded
                         ELSE Append(yielded, res.ptr)
    /\ UNCHANGED <<width, height, tileize, first_run, again>>
    /\ UNCHANGED <<image_vars, args_vars, palette, key15, pixel_vars, pc,
                   emit_vars, insert_vars>>

\* image->rows[r] with r beyond the rows array (a run that starts with the
\* statics of an earlier run on a taller image): the read is undefined
TravOutOfRange ==
    /\ ptr # NULL
    /\ ptr # Undefined
    /\ r > height
    /\ ptr' = Undefined
    /\ UNCHANGED <<width, height, tileize, r, c, tr, tc, yielded, first_run,
                   again>>
    /\ UNCHANGED <<image_vars, args_vars, palette, key15, pixel_vars, pc,
                   emit_vars, insert_vars>>

\* a second conversion in the same process: the statics are kept
NewRun ==
    /\ first_run
    /\ ptr = NULL
    /\ first_run' = FALSE
    /\ again' = 0
    /\ width' \in Dims
    /\ height' \in Dims
    /\ tileize' \in BOOLEAN
    /\ ptr' = NotCalled
    /\ yielded' = <<>>
    /\ UNCHANGED <<r, c, tr, tc>>
    /\ UNCHANGED <<image_vars, args_vars, palette, key15, pixel_vars, pc,
                   emit_vars, insert_vars>>

\* a caller that calls next_byte again on the same image after it returned
\* NULL (png2gba itself leaves its loop at the first NULL)
TravAgain ==
    /\ ptr = NULL
    /\ again < MaxAgain
    /\ again' = again + 1
    /\ LET res == next_byte(Statics, height, width, tileize)
       IN  /\ ptr' = res.ptr
           /\ r' = res.cur.r
           /\ c' = res.cur.c
           /\ tr' = res.cur.tr
           /\ tc' = res.cur.tc
           /\ yielded' = IF res.ptr = NULL THEN yielded
                         ELSE Append(yielded, res.ptr)
    /\ UNCHANGED <<width, height, tileize, first_run>>
    /\ UNCHANGED <<image_vars, args_vars, palette, key15, pixel_vars, pc,
                   emit_vars, insert_vars>>

TravInit ==
    /\ width \in Dims
    /\ height \in Dims
    /\ tileize \in BOOLEAN
    /\ r = 0 /\ c = 0 /\ tr = 0 /\ tc = 0
    /\ ptr = NotCalled
    /\ yielded = <<>>
    /\ first_run = TRUE /\ again = 0
    /\ NoImageData /\ NoArgs /\ NoPalette /\ NoPixel /\ NoOutput /\ NoInserts
    /\ pc = "loop"

TravNextRel == TravNext \/ TravOutOfRange \/ TravAgain \/ NewRun

TravSpec == TravInit /\ [][TravNextRel]_vars

-----------------------------------------------------------------------------
(* The whole position sequence of one run, by repeated calls of next_byte *)

\* n successive calls of next_byte from the statics cur: the statics after
\* them and the positions returned (a call that returns NULL adds none)
Then(a, b) == [cur |-> b.cur, seq |-> a.seq \o b.seq]

RECURSIVE Calls(_, _, _, _, _)
Calls(cur, h, w, tz, n) ==
    IF n = 0 THEN [cur |-> cur, seq |-> <<>>]
    ELSE IF n = 1
    THEN LET res == next_byte(cur, h, w, tz)
         IN  [cur |-> res.cur,
              seq |-> IF res.ptr = NULL THEN <<>> ELSE <<res.ptr>>]
    ELSE CHOOSE ab \in UNION {
             {Then(a, b) : b \in {Calls(a.cur, h, w, tz, n - (n \div 2))}} :
                 a \in {Calls(cur, h, w, tz, n \div 2)}} : TRUE

\* the sequence a first-ever run yields on an h-by-w image: every row
\* yields at most w + 7 positions
Traversal(h, w, tz) == Calls(FreshCursor, h, w, tz, h * (w + TileDim)).seq

IsPrefix(s, t) == Len(s) <= Len(t) /\ SubSeq(t, 1, Len(s)) = s

Positions(h, w) == (0..(h - 1)) \X (0..(w - 1))

Range(s) == {s[k] : k \in 1..Len(s)}

\* the k-th position (k from 0) of tile-major order on an image of width w
TileMajorPos(k, w) ==
    LET tile   == k \div (TileDim * TileDim)
        within == k % (TileDim * TileDim)
        across == w \div TileDim
    IN  <<((tile \div across) * TileDim) + (within \div TileDim),
          ((tile % across) * TileDim) + (within % TileDim)>>

Exhausted == ptr = NULL

-----------------------------------------------------------------------------
(* Traversal claims, under TravSpec *)

\* C1: in linear mode a fresh cursor yields, as its k-th position (k from
\* 0), (k div W, k mod W); once next_byte has returned NULL exactly W*H
\* positions were yielded, each position of the image exactly once.
C1_LinearRowMajor ==
    (first_run /\ ~tileize) =>
        /\ Len(yielded) <= width * height
        /\ \A k \in 1..Len(yielded) :
              yielded[k] = <<(k - 1) \div width, (k - 1) % width>>
        /\ Exhausted =>
              /\ Len(yielded) = width * height
              /\ Range(yielded) = Positions(height, width)
              /\ Cardinality(Range(yielded)) = Len(yielded)

C1_Witness ==
    /\ first_run /\ ~tileize /\ Exhausted
    /\ width = 3 /\ height = 2
    /\ yielded = <<<<0, 0>>, <<0, 1>>, <<0, 2>>, <<1, 0>>, <<1, 1>>, <<1, 2>>>>

MultipleOfTile(n) == n % TileDim = 0

\* C2: in tiled mode, on an image whose sides are multiples of 8, a fresh
\* cursor yields the positions in tile-major order (tiles left to right,
\* tile rows top to bottom, row-major inside a tile), all 64 positions of a
\* tile before any of the next, and after NULL every position of the image
\* was yielded exactly once.
C2_TiledTileMajor ==
    (first_run /\ tileize /\ MultipleOfTile(width) /\ MultipleOfTile(height)) =>
        /\ Len(yielded) <= width * height
        /\ \A k \in 1..Len(yielded) : yielded[k] = TileMajorPos(k - 1, width)
        /\ (width = 2 * TileDim /\ height = TileDim) =>
              \A i, j \in 1..Len(yielded) :
                  (yielded[i][2] < TileDim /\ yielded[j][2] >= TileDim) => i < j
        /\ Exhausted =>
              /\ Len(yielded) = width * height
              /\ Range(yielded) = Positions(height, width)
              /\ Cardinality(Range(yielded)) = Len(yielded)

C2_Witness ==
    /\ first_run /\ tileize /\ Exhausted
    /\ width = 2 * TileDim /\ height = 2 * TileDim
    /\ Len(yielded) = width * height
    /\ yielded[TileDim * TileDim] = <<TileDim - 1, TileDim - 1>>
    /\ yielded[TileDim * TileDim + 1] = <<0, TileDim>>
    /\ yielded[2 * TileDim * TileDim + 1] = <<TileDim, 0>>

\* C3: on an 8x8 image the sequence a fresh tiled cursor yields is, element
\* by element and in length (64), the sequence a fresh linear cursor yields.
C3_SingleTileIsLinear ==
    (first_run /\ tileize /\ width = TileDim /\ height = TileDim) =>
        /\ IsPrefix(yielded, Traversal(height, width, FALSE))
        /\ Exhausted =>
              /\ yielded = Traversal(height, width, FALSE)
              /\ Len(yielded) = TileDim * TileDim

C3_Witness ==
    /\ first_run /\ tileize /\ width = TileDim /\ height = TileDim
    /\ Exhausted
    /\ Len(yielded) = TileDim * TileDim
    /\ yielded[TileDim + 1] = <<1, 0>>

\* C10: a second conversion in the same process starts at (0,0) and yields
\* exactly the sequence a first-ever run on its image and mode yields.
C10_SecondRunLikeFirst ==
    ~first_run =>
        /\ ptr # Undefined
        /\ IsPrefix(yielded, Traversal(height, width, tileize))
        /\ Exhausted => yielded = Traversal(height, width, tileize)

-----------------------------------------------------------------------------
(* The quantizer on its own: hex24_to_15 and the pixel loop's conversion *)

Tops == (0..MaxTop) \cup ((31 - MaxTop)..31)
Lows == {0, 5, 7}
Channels == {8 * t + l : t \in Tops, l \in Lows}
Extremes == {0, 255}

\* the (red, green, blue) the quantizer is run on: the sampled channel
\* values in every combination, and every value 0..255 of one channel with
\* the two others at 0 or 255
QuantInputs ==
    (Channels \X Channels \X Channels)
        \cup ((0..255) \X Extremes \X Extremes)
        \cup (Extremes \X (0..255) \X Extremes)
        \cup (Extremes \X Extremes \X (0..255))

\* "%02x" / "%02X" of a channel value, as a colorkey is written
ToHex(v, upper) ==
    LET digits == IF upper THEN HexDigitsUpper ELSE HexDigits
    IN  <<digits[(v \div 16) + 1], digits[(v % 16) + 1]>>

KeyString(rd, gr, bl, upper) ==
    <<"#">> \o ToHex(rd, upper) \o ToHex(gr, upper) \o ToHex(bl, upper)

QuantInit ==
    /\ \E rgb \in QuantInputs : red = rgb[1] /\ green = rgb[2] /\ blue = rgb[3]
    /\ \E upper \in BOOLEAN : colorkey = KeyString(red, green, blue, upper)
    /\ color = None
    /\ key15 = None
    /\ pc = "create"
    /\ width = 1 /\ height = 1 /\ tileize = FALSE
    /\ r = 0 /\ c = 0 /\ tr = 0 /\ tc = 0
    /\ ptr = NotCalled /\ yielded = <<>> /\ first_run = TRUE /\ again = 0
    /\ NoImageData /\ args_palette = 0 /\ palette = NoPaletteYet
    /\ NoOutput /\ NoInserts

\* hex24_to_15(args.colorkey)
QuantKey ==
    /\ pc = "create"
    /\ key15' = hex24_to_15(colorkey)
    /\ pc' = "loop"
    /\ UNCHANGED <<trav_vars, image_vars, args_vars, palette, pixel_vars,
                   emit_vars, insert_vars>>

\* convert to 16-bit color
QuantPixel ==
    /\ pc = "loop"
    /\ color' = PixelColor(red, green, blue)
    /\ pc' = "done"
    /\ UNCHANGED <<red, green, blue>>
    /\ UNCHANGED <<trav_vars, image_vars, args_vars, palette, key15,
                   emit_vars, insert_vars>>

QuantNext == QuantKey \/ QuantPixel

QuantSpec == QuantInit /\ [][QuantNext]_vars

\* C9: for channel values in [0,255] the pixel conversion and hex24_to_15
\* both give (b div 8)*1024 + (g div 8)*32 + (r div 8), a value below 2^15
\* whose three 5-bit fields are the channels' top five bits (no carry), and
\* which does not change when the low 3 bits of a channel change;
\* (255,0,0) gives 31.
Packed(rd, gr, bl) == ((bl \div 8) * 1024) + ((gr \div 8) * 32) + (rd \div 8)

LowBitVariants(v) == {(8 * (v \div 8)) + d : d \in 0..7}

C9_Quantizer ==
    /\ key15 # None =>
          /\ key15 = Packed(red, green, blue)
          /\ \A v \in LowBitVariants(red), upper \in BOOLEAN :
                hex24_to_15(KeyString(v, green, blue, upper)) = key15
          /\ \A v \in LowBitVariants(green), upper \in BOOLEAN :
                hex24_to_15(KeyString(red, v, blue, upper)) = key15
          /\ \A v \in LowBitVariants(blue), upper \in BOOLEAN :
                hex24_to_15(KeyString(red, green, v, upper)) = key15
    /\ color # None =>
          /\ color = Packed(red, green, blue)
          /\ color = key15
          /\ color \in 0..((2 ^ 15) - 1)
          /\ color \div 1024 = blue \div 8
          /\ (color \div 32) % 32 = green \div 8
          /\ color % 32 = red \div 8
          /\ \A v \in LowBitVariants(red) : PixelColor(v, green, blue) = color
          /\ \A v \in LowBitVariants(green) : PixelColor(red, v, blue) = color
          /\ \A v \in LowBitVariants(blue) : PixelColor(red, green, v) = color
          /\ (red = 255 /\ green = 0 /\ blue = 0) => color = 31

C9_Witness ==
    /\ red = 255 /\ green = 0 /\ blue = 0
    /\ colorkey = <<"#", "F", "F", "0", "0", "0", "0">>
    /\ key15 = 31 /\ color = 31

-----------------------------------------------------------------------------
(* main's palette set-up, shared by the palette and the conversion models *)

ExitBadOption == "exit: Palette must be 16 or 256 colors"
ExitTooMany == "exit: Too many colors in image for the palette"

\* colorkeys: "#ff00ff" (the default), "#000000", "#180000", "#F800F8"
KeyMagenta == <<"#", "f", "f", "0", "0", "f", "f">>
KeyBlack == <<"#", "0", "0", "0", "0", "0", "0">>
KeyThree == <<"#", "1", "8", "0", "0", "0", "0">>
KeyUpper == <<"#", "F", "8", "0", "0", "F", "8">>

\* lines 429-433 of main; insert_palette may end the program
Create ==
    /\ pc = "create"
    /\ LET key == hex24_to_15(colorkey)
           res == CreatePalette(args_palette, colorkey)
       IN  /\ key15' = key
           /\ palette' = res.palette
           /\ pc' = IF res.exit THEN ExitTooMany ELSE "loop"
           /\ Inserted(key, res)
    /\ UNCHANGED <<trav_vars, image_vars, args_vars, pixel_vars, emit_vars>>

-----------------------------------------------------------------------------
(* insert_palette on its own: any sequence of calls after the set-up *)

Present == {palette.colors[i] : i \in 0..(palette.used - 1)}
Absent == (0..MaxColor) \ Present

\* the colors an insert_palette call is modelled with: every color of the
\* palette, the smallest new color, and the largest new color while it is
\* one of the MaxHigh largest
InsertColors ==
    Present \cup {Min(Absent)}
            \cup {x \in {Max(Absent)} : x > MaxColor - MaxHigh}

PalInsert ==
    /\ pc = "loop"
    /\ \E clr \in InsertColors :
         LET res == insert_palette(clr, palette)
         IN  /\ palette' = res.palette
             /\ pc' = IF res.exit THEN ExitTooMany ELSE "loop"
             /\ Inserted(clr, res)
    /\ UNCHANGED <<trav_vars, image_vars, args_vars, key15, pixel_vars, emit_vars>>

PalInit ==
    /\ args_palette \in {0, 16, 256}
    /\ colorkey \in {KeyBlack, KeyThree, KeyMagenta}
    /\ pc = "create"
    /\ width = 1 /\ height = 1 /\ tileize = FALSE
    /\ r = 0 /\ c = 0 /\ tr = 0 /\ tc = 0
    /\ ptr = NotCalled /\ yielded = <<>> /\ first_run = TRUE /\ again = 0
    /\ NoImageData /\ NoPalette /\ NoPixel /\ NoOutput /\ NoInserts

PalNext == Create \/ PalInsert

PalSpec == PalInit /\ [][PalNext]_vars

Created == pc \in {"loop", "table", "done", ExitTooMany}

\* C4: a color whose insertion returned index i is found again by every
\* later insert_palette call: the call does not end the program (also when
\* the palette is full), returns i and leaves the palette as it is.
C4_InsertIdempotent ==
    Created =>
        \A clr \in DOMAIN given :
            LET res == insert_palette(clr, palette)
            IN  /\ ~res.exit
                /\ res.index = given[clr]
                /\ res.palette = palette

C4_Witness ==
    /\ pc = "loop"
    /\ args_palette = 16
    /\ palette.used = 15
    /\ last_color \in DOMAIN given
    /\ last_index = given[last_color]
    /\ last_index = 7

\* C5: with capacity max (16 or 256) the insertion of a new color succeeds
\* at index = size while size < max-1, fails when size >= max-1, and the
\* first failure happens at size = max-1.
C5_OverflowAtMaxMinusOne ==
    (Created /\ args_palette \in {16, 256}) =>
        /\ pc = ExitTooMany => palette.used = args_palette - 1
        /\ pc = "loop" =>
              \A clr \in Absent :
                  LET res == insert_palette(clr, palette)
                  IN  IF palette.used < args_palette - 1
                      THEN /\ ~res.exit
                           /\ res.index = palette.used
                           /\ res.palette.used = palette.used + 1
                      ELSE res.exit

\* C7: the entries below size are pairwise distinct, size is at most
\* max-1 (max the capacity asked for, 16 or 256), the slots from size on
\* are zero; a step never lowers size nor changes an entry below size.
PaletteShape ==
    Created =>
        /\ \A i, j \in 0..(palette.used - 1) :
              i # j => palette.colors[i] # palette.colors[j]
        /\ args_palette \in {16, 256} => palette.used <= args_palette - 1
        /\ \A i \in palette.used..(PALETTE_MAX - 1) : palette.colors[i] = 0

PaletteGrows ==
    (Created /\ Created') =>
        /\ palette'.used >= palette.used
        /\ \A i \in 0..(palette.used - 1) : palette'.colors[i] = palette.colors[i]

C7_PaletteInvariant == []PaletteShape /\ [][PaletteGrows]_vars

C7_Witness ==
    /\ pc = ExitTooMany
    /\ args_palette = 16
    /\ palette.used = 15
    /\ palette.colors[0] = 3
    /\ palette.colors[1] = 0
    /\ last_color \notin Present

-----------------------------------------------------------------------------
(* The conversion: main from "Verify Arguments" on, and png2gba *)

\* The decoded pixels.  Shade 0 is the default colorkey's color, shade 1 is
\* red, shade 2 differs from shade 0 in low bits only, the shades from 3 on
\* differ in their top five red bits.
Shade(n) ==
    IF n = 0 THEN <<255, 0, 255>>
    ELSE IF n = 1 THEN <<255, 0, 0>>
    ELSE IF n = 2 THEN <<250, 5, 249>>
    ELSE <<U8((8 * n) + 3), U8(16 * n), 7>>

\* ptr[0], ptr[1], ptr[2] for ptr = &image->rows[row][col * channels]
PixelAt(pos) == Shade(img_base + (((pos[1] * width) + pos[2]) % img_period))

InImage(pos) == pos[1] \in 0..(height - 1) /\ pos[2] \in 0..(width - 1)

PipeDims == (1..MaxSmall) \cup {TileDim}

\* the widths: those and the widest image, of MaxTiles tiles in a row
PipeWidths == PipeDims \cup {TileDim * MaxTiles}

Init ==
    /\ width \in PipeWidths
    /\ height \in PipeDims
    /\ tileize \in BOOLEAN
    /\ args_palette \in {0, 4, 16, 256}
    /\ colorkey \in {KeyMagenta, KeyBlack, KeyUpper}
    /\ img_base \in 0..MaxBase
    /\ img_period \in {1, 2, MaxPeriod}
    /\ r = 0 /\ c = 0 /\ tr = 0 /\ tc = 0
    /\ ptr = NotCalled /\ yielded = <<>> /\ first_run = TRUE /\ again = 0
    /\ pc = "verify"
    /\ NoPalette /\ NoPixel /\ NoOutput /\ NoInserts

\* if (args.palette) { if ((args.palette != 16) && (args.palette != 256)) exit }
VerifyArgs ==
    /\ pc = "verify"
    /\ pc' = IF args_palette # 0 /\ args_palette # 16 /\ args_palette # 256
             THEN ExitBadOption ELSE "create"
    /\ UNCHANGED <<trav_vars, image_vars, args_vars, palette, key15, pixel_vars,
                   emit_vars, insert_vars>>

\* a pixel loop that breaks its lines like the palette loop does
Wrapped_AfterNine(n) ==
    /\ colors_this_line' = IF colors_this_line + 1 > TILE_SIZE THEN 0
                           ELSE colors_this_line + 1
    /\ data_breaks' = IF colors_this_line + 1 > TILE_SIZE
                      THEN Append(data_breaks, n) ELSE data_breaks

\* colors_this_line++; if (colors_this_line >= TILE_SIZE) { "\n"; = 0 }
Wrapped(n) ==
    /\ colors_this_line' = IF colors_this_line + 1 >= TILE_SIZE THEN 0
                           ELSE colors_this_line + 1
    /\ data_breaks' = IF colors_this_line + 1 >= TILE_SIZE
                      THEN Append(data_breaks, n) ELSE data_breaks

\* one evaluation of the while condition of png2gba and, when next_byte
\* returned a pixel, one pass through the loop body.  png2gba names image,
\* color_palette and palette_size without declaring them: they are taken
\* to be main's image and main's palette (its colors and its used).
PixelStep ==
    /\ pc = "loop"
    /\ LET res == next_byte(Statics, height, width, tileize)
       IN  /\ ptr' = res.ptr
           /\ r' = res.cur.r /\ c' = res.cur.c
           /\ tr' = res.cur.tr /\ tc' = res.cur.tc
           /\ IF res.ptr = NULL
              THEN /\ pc' = IF args_palette # 0 THEN "table" ELSE "done"
                   /\ UNCHANGED <<yielded, palette, pixel_vars, data,
                                  colors_this_line, data_breaks, insert_vars>>
              ELSE IF ~InImage(res.ptr)
              \* the pixel is read outside the row that was allocated
              THEN /\ pc' = Undefined
                   /\ yielded' = Append(yielded, res.ptr)
                   /\ UNCHANGED <<palette, pixel_vars, data, colors_this_line,
                                  data_breaks, insert_vars>>
              ELSE LET px == PixelAt(res.ptr)
                       clr == PixelColor(px[1], px[2], px[3])
                       ins == insert_palette(clr, palette)
                   IN  /\ yielded' = Append(yielded, res.ptr)
                       /\ red' = px[1] /\ green' = px[2] /\ blue' = px[3]
                       /\ color' = clr
                       /\ IF args_palette = 0
                          THEN /\ data' = Append(data, clr)
                               /\ Wrapped(Len(data) + 1)
                               /\ pc' = pc
                               /\ UNCHANGED <<palette, insert_vars>>
                          ELSE IF ins.exit
                          THEN /\ pc' = ExitTooMany
                               /\ palette' = ins.palette
                               /\ Inserted(clr, ins)
                               /\ UNCHANGED <<data, colors_this_line, data_breaks>>
                          ELSE /\ data' = Append(data, ins.index)
                               /\ Wrapped(Len(data) + 1)
                               /\ pc' = pc
                               /\ palette' = ins.palette
                               /\ Inserted(clr, ins)
    /\ UNCHANGED <<width, height, tileize, first_run, again, image_vars,
                   args_vars,
                   key15, table, table_breaks>>

\* the end of the body of the palette loop for entry i, on the loop's own
\* counter: colors_this_line++; if (colors_this_line > 8) { "\n"; = 0 }
TableIter(i, st) ==
    IF st.colors_this_line + 1 > 8
    THEN [colors_this_line |-> 0, breaks |-> Append(st.breaks, i + 1)]
    ELSE [colors_this_line |-> st.colors_this_line + 1, breaks |-> st.breaks]

\* the iterations lo .. hi - 1 of the palette loop, one after the other
RECURSIVE TableLoop(_, _, _)
TableLoop(lo, hi, st) ==
    IF hi <= lo THEN st
    ELSE IF hi = lo + 1 THEN TableIter(lo, st)
    ELSE LET mid == lo + ((hi - lo) \div 2)
         IN  CHOOSE x \in {TableLoop(mid, hi, a) : a \in {TableLoop(lo, mid, st)}} :
                 TRUE

\* the values before each "\n" of the palette loop
TableBreaks ==
    TableLoop(0, PALETTE_MAX, [colors_this_line |-> 0, breaks |-> <<>>]).breaks

\* the palette array with one entry for each slot the palette can hold
TableEntries_Capacity(pal) == [i \in 1..pal.max |-> pal.colors[i - 1]]

\* for (i = 0; i < PALETTE_MAX; i++) fprintf(out, "0x%04x", color_palette[i])
TableEntries(pal) == [i \in 1..PALETTE_MAX |-> pal.colors[i - 1]]

\* write the palette if needed
WriteTable ==
    /\ pc = "table"
    /\ table' = TableEntries(palette)
    /\ table_breaks' = TableBreaks
    /\ pc' = "done"
    /\ UNCHANGED <<trav_vars, image_vars, args_vars, palette, key15, pixel_vars,
                   data, colors_this_line, data_breaks, insert_vars>>

Next == VerifyArgs \/ Create \/ PixelStep \/ WriteTable

Spec == Init /\ [][Next]_vars

\* the 15-bit color of the pixel at a position
ColorAt(pos) == PixelColor(PixelAt(pos)[1], PixelAt(pos)[2], PixelAt(pos)[3])

\* C6: for the accepted options 16 and 256 the capacity stored in the
\* palette equals the option, and the insertion of the colorkey into the
\* zeroed palette succeeds, returns index 0 and leaves size 1.
C6_SetupStoresCapacity ==
    (args_palette \in {16, 256} /\ pc \notin {"verify", "create"}) =>
        /\ palette.max = args_palette
        /\ key15 \in DOMAIN given
        /\ given[key15] = 0
        /\ ptr = NotCalled =>
              /\ pc = "loop"
              /\ last_index = 0
              /\ palette.used = 1
              /\ palette.colors[0] = key15

\* the pixel loop was entered, or is about to be
Converting ==
    \/ pc \in {"loop", "table", "done"}
    \/ pc = ExitTooMany /\ ptr # NotCalled

\* C8: throughout an indexed conversion palette entry 0 is the quantized
\* colorkey, a pixel whose 15-bit color is the colorkey's is written as
\* index 0, and every other pixel as an index >= 1.
C8_ColorkeyOwnsIndexZero ==
    (args_palette # 0 /\ Converting) =>
        /\ palette.used >= 1
        /\ palette.colors[0] = hex24_to_15(colorkey)
        /\ \A k \in 1..Len(data) :
              IF ColorAt(yielded[k]) = hex24_to_15(colorkey)
              THEN data[k] = 0
              ELSE data[k] >= 1

C8_Witness ==
    /\ args_palette = 16 /\ pc = "done"
    /\ colorkey = KeyUpper
    /\ width = 2 /\ height = 2
    /\ \E k \in 1..Len(data) : PixelAt(yielded[k]) = <<250, 5, 249>> /\ data[k] = 0
    /\ \E k \in 1..Len(data) : data[k] = 1
    /\ Len(data) = 4

-----------------------------------------------------------------------------
(* Claims about the whole conversion, under Spec and TravSpec *)

\* the modes and dimensions the traversal is specified for
Supported == ~tileize \/ (MultipleOfTile(width) /\ MultipleOfTile(height))

\* C11: when tiled traversal is asked for on an image whose width or height
\* is not a multiple of 8, the conversion is rejected before the traversal
\* begins: no position is yielded and no pixel value is written.
C11_TiledRejectsOddDimensions ==
    ~Supported => (yielded = <<>> /\ data = <<>>)

\* C12: for every width and height above 0 and either mode the pixel loop
\* of a first conversion ends after finitely many calls of next_byte and
\* has then processed exactly width * height pixels: never more are
\* yielded, and when NULL is returned exactly that many have been.
C12_ProcessesEveryPixelOnce ==
    first_run =>
        /\ Len(yielded) <= width * height
        /\ Exhausted => Len(yielded) = width * height

\* C13: when an indexed conversion has come through its pixel loop without
\* overflow, width * height indices were written and the final palette
\* entry at the k-th index is the 15-bit color of the pixel at the k-th
\* position of the traversal; a 2 by 2 image of (255,0,0) with colorkey
\* #ff00ff and 16 colors leaves the palette colorkey, red, zeros and the
\* indices 1, 1, 1, 1.
C13_IndexedRoundTrip ==
    (args_palette # 0 /\ pc \in {"table", "done"}) =>
        /\ Len(data) = width * height
        /\ \A k \in 1..Len(data) : palette.colors[data[k]] = ColorAt(yielded[k])
        /\ (/\ width = 2 /\ height = 2 /\ img_base = 1 /\ img_period = 1
            /\ colorkey = KeyMagenta /\ args_palette = 16) =>
              /\ data = <<1, 1, 1, 1>>
              /\ palette.colors[0] = hex24_to_15(KeyMagenta)
              /\ palette.colors[1] = PixelColor(255, 0, 0)
              /\ \A i \in 2..15 : palette.colors[i] = 0

C15_LineGrouping ==
    /\ Len(data_breaks) = Len(data) \div 8
    /\ \A k \in 1..Len(data_breaks) : data_breaks[k] = 8 * k
    /\ Len(table_breaks) = Len(table) \div 9
    /\ \A k \in 1..Len(table_breaks) : table_breaks[k] = 9 * k

C15_Witness ==
    /\ pc = "done"
    /\ width = 3 /\ height = 3
    /\ data_breaks = <<8>> /\ Len(data) = 9
    /\ Len(table) = PALETTE_MAX /\ Len(table_breaks) = 28

\* C16: once next_byte has returned NULL (linear mode on any image, tiled
\* mode on multiples of 8), a further call on the same image returns NULL
\* again, yields nothing, and leaves r, c, tr and tc as they were.
C16_ExhaustionAbsorbing ==
    [][(Exhausted /\ Supported /\ again' = again + 1) =>
          /\ ptr' = NULL
          /\ yielded' = yielded
          /\ r' = r /\ c' = c /\ tr' = tr /\ tc' = tc]_vars

C16_Witness ==
    /\ again >= 2 /\ Exhausted
    /\ first_run /\ tileize /\ width = 2 * TileDim /\ height = TileDim
    /\ Len(yielded) = width * height

\* C17: every position next_byte yields in a first conversion has its row
\* in 0 .. height - 1 and its column in 0 .. width - 1, in either mode and
\* for every width and height, multiples of 8 or not.
C17_YieldsInBounds ==
    first_run => \A k \in 1..Len(yielded) : InImage(yielded[k])

\* C18: with palette option 0 the conversion never stops for want of room
\* in the palette, neither at setup nor in the pixel loop; it writes the
\* 15-bit color of the k-th pixel as its k-th value, and width * height
\* values once the loop is through.
C18_DirectColorNeedsNoPalette ==
    args_palette = 0 =>
        /\ pc # ExitTooMany
        /\ \A k \in 1..Len(data) : data[k] = ColorAt(yielded[k])
        /\ pc = "done" => Len(data) = width * height

=============================================================================
